---- MODULE Spec2Model ----
(***************************************************************************)
(* Type-2 SCD versioning engine of mercor-scd (internal/scd).              *)
(*                                                                         *)
(* The store is one table (jobs) of a transactional relational database   *)
(* with PRIMARY KEY(uid) and UNIQUE(id, version), read-committed           *)
(* isolation.  CreateNew and SoftDelete issue their statements outside a   *)
(* transaction (each statement commits on its own); Update runs its        *)
(* statements inside db.Transaction, so its writes stay private to the     *)
(* transaction until the commit.  Every statement of a call is one step,   *)
(* so calls of different goroutines interleave statement by statement.     *)
(*                                                                         *)
(* T is a pointer type in every instantiation (the SCDModel methods have   *)
(* pointer receivers), so in Update `result = latest` copies the pointer:  *)
(* `latest` and `result` name one struct.  loc[p].ent is that struct.      *)
(***************************************************************************)
EXTENDS Integers, Sequences, FiniteSets, TLC

\* Goroutines calling into the engine.
Procs == {"p1", "p2"}

\* Business identifiers of the entities; "" is the zero string.
Keys == {"a", "b"}

BusinessIDs == Keys \cup {""}

\* Number of calls (CreateNew, Update, SoftDelete) started in one behaviour.
MaxCalls == 5

\* uuid.Nil
NilUID == 0

\* A nil *time.Time (valid_to IS NULL).
NULL == -1

\* The zero time.Time.
ZeroTime == 0

\* maxRetries of Update.
maxRetries == 3

\* Payload of a new entity (Rate).
InitRates == {50}

\* The mutator goroutine p passes to Update raises the rate by MutatorOf(p)
\* (each goroutine of the concurrency tests brings a mutator of its own).
MutatorOf(p) == IF p = "p1" THEN 1 ELSE 2

VARIABLES
    rows,      \* committed rows of the table
    pc,        \* pc[p]: the statement goroutine p executes next
    loc,       \* loc[p]: the locals of p's call
    last,      \* last[p]: the result p holds of its previous call
    stat,      \* stat[k]: what the calls on key k have returned so far
    clock,     \* time.Now()
    calls,     \* calls started so far
    deps,      \* committed rows of the tables that reference the first
    query      \* the query a caller is building from scopes

vars == <<rows, pc, loc, last, stat, clock, calls, deps, query>>

\* The zero value of an entity (var zero T; for the model's purposes the
\* struct it would point to).
ZeroEntity ==
    [uid |-> NilUID, id |-> "", version |-> 0, valid_from |-> ZeroTime,
     valid_to |-> NULL, rate |-> 0]

\* An entity as the constructors of internal/models build it: only the
\* business identifier and the payload are set.
NewEntity(id, rate) ==
    [ZeroEntity EXCEPT !.id = id, !.rate = rate]

NoResult ==
    [kind |-> "none", key |-> "", mut |-> 0, ok |-> FALSE, err |-> "",
     at |-> "", retries |-> 0, ent |-> ZeroEntity, pred |-> ZeroEntity]

IdleLoc ==
    [kind |-> "none", key |-> "", mut |-> 0, ent |-> ZeroEntity,
     pred |-> ZeroEntity, nextVersion |-> 0, attempt |-> 0,
     txIns |-> {}, txUpd |-> {}, env |-> "none"]

\* db.Model(...) before any scope: no condition, no ordering.
EmptyQuery == [where |-> <<>>, order |-> <<>>]

---------------------------------------------------------------------------
(* Scopes and queries                                                      *)

\* Mutant: the scope selects the closed rows.
Latest_Closed(S) == {r \in S : r.valid_to # NULL}

\* Mutant: the scope does not filter.
Latest_Unfiltered(S) == S

\* scd.Latest: valid_to IS NULL
Latest(S) == {r \in S : r.valid_to = NULL}

\* scd.AsOf(t): valid_from <= t AND (valid_to IS NULL OR valid_to > t)
AsOf(S, t) == {r \in S : r.valid_from <= t /\ (r.valid_to = NULL \/ r.valid_to > t)}

\* Mutant: the scope does not filter.
Historical_Unfiltered(S) == S

\* scd.Historical: valid_to IS NOT NULL
Historical(S) == {r \in S : r.valid_to # NULL}

\* scd.AllVersions: return db (no filtering)
AllVersions(S) == S

\* scd.ByBusinessID: id = ?
ByBusinessID(S, id) == {r \in S : r.id = id}

\* scd.ByVersion: version = ?
ByVersion(S, v) == {r \in S : r.version = v}

SetMax(S) == CHOOSE x \in S : \A y \in S : y <= x

\* Mutant: the allocation skips a number.
NextVersionOf_Skip(S, id) ==
    IF ByBusinessID(S, id) = {} THEN 0 + 2
    ELSE SetMax({r.version : r \in ByBusinessID(S, id)}) + 2

\* SELECT COALESCE(MAX(version), 0) + 1 FROM table WHERE id = ?
NextVersionOf(S, id) ==
    IF ByBusinessID(S, id) = {} THEN 0 + 1
    ELSE SetMax({r.version : r \in ByBusinessID(S, id)}) + 1

\* Mutant: the table has no UNIQUE(id, version), only its primary key.
UniqueViolation_PKOnly(S, e) ==
    \E r \in S : r.uid = e.uid

\* Mutant: the version is unique across the whole table, whatever the key.
UniqueViolation_VersionOnly(S, e) ==
    \E r \in S : r.uid = e.uid \/ r.version = e.version

\* PRIMARY KEY(uid) and UNIQUE(id, version) of the table.
UniqueViolation(S, e) ==
    \E r \in S : r.uid = e.uid \/ (r.id = e.id /\ r.version = e.version)

\* Mutant: the statement has no WHERE clause.
SetValidTo_EveryRow(S, uid, t) == {[r EXCEPT !.valid_to = t] : r \in S}

\* UPDATE table SET valid_to = t WHERE uid = ?
SetValidTo(S, uid, t) ==
    {IF r.uid = uid THEN [r EXCEPT !.valid_to = t] ELSE r : r \in S}

UIDs(S) == {r.uid : r \in S}

\* The table with a transaction's writes applied: ins are the rows it
\* inserted, upd the new images of the committed rows it updated.
Apply(S, ins, upd) == {r \in S : r.uid \notin UIDs(upd)} \cup upd \cup ins

\* What the statements of p's transaction read: the committed rows and the
\* transaction's own writes (read committed).
Visible(p) == Apply(rows, loc[p].txIns, loc[p].txUpd)

\* uuid.New(): an identifier no row and no struct in memory carries (the
\* least such number, identifiers being compared for equality only).
UsedUIDs ==
    UIDs(rows) \cup {loc[q].ent.uid : q \in Procs}
               \cup UNION {UIDs(loc[q].txIns) : q \in Procs}
               \cup UIDs(deps)

NewUID == CHOOSE n \in 1..(Cardinality(UsedUIDs) + 1) : n \notin UsedUIDs

\* Rows inserted by transactions of other goroutines that have not ended.
PendingOthers(p) == UNION {loc[q].txIns : q \in Procs \ {p}}

---------------------------------------------------------------------------
(* Model hooks and local steps                                             *)

\* Model.BeforeCreate: generate the UID if unset, reject an empty business
\* ID, compute the version if unset.  S is what the hook's query reads.
BeforeCreate(e, S, fresh) ==
    LET e1 == IF e.uid = NilUID THEN [e EXCEPT !.uid = fresh] ELSE e
    IN  IF e1.id = "" THEN [err |-> TRUE, ent |-> e1]
        ELSE IF e1.version = 0
             THEN [err |-> FALSE,
                   ent |-> [e1 EXCEPT !.version = NextVersionOf(S, e1.id) - 1 + 1]]
             ELSE [err |-> FALSE, ent |-> e1]

\* The mutator of an Update call: mutator(result).
Mutate(m, e) == [e EXCEPT !.rate = @ + m]

\* What a mutator may do to the SCD fields of the struct it receives, beside
\* changing the payload: nothing, or assign one of them (the setters and the
\* embedded Model are open to it).
EnvelopeMutations ==
    {"none", "id", "id_empty", "version", "uid", "valid_from", "valid_to"}

OtherKey(id) == CHOOSE k \in Keys : k # id

MutateEnvelope(f, e, now) ==
    CASE f = "id"         -> [e EXCEPT !.id = OtherKey(e.id)]
      [] f = "id_empty"   -> [e EXCEPT !.id = ""]
      [] f = "version"    -> [e EXCEPT !.version = 99]
      [] f = "uid"        -> [e EXCEPT !.uid = NilUID]
      [] f = "valid_from" -> [e EXCEPT !.valid_from = now]
      [] f = "valid_to"   -> [e EXCEPT !.valid_to = now]
      [] OTHER            -> e

\* Mutant: the new version keeps the UID of the row it was copied from.
PrepareNewVersion_KeepUID(e, m, uid, v) ==
    [Mutate(m, e) EXCEPT !.version = v]

\* Update steps 4-5: result = latest; mutator(result); result.SetUID(uuid.New());
\* result.SetVersion(nextVersion).  The struct is the one `latest` points to.
PrepareNewVersion(e, m, uid, v) ==
    [Mutate(m, e) EXCEPT !.uid = uid, !.version = v]

\* Mutant: the version is 2.
PrepareFirstVersion_Two(e, uid) == [e EXCEPT !.uid = uid, !.version = 2]

\* CreateNew: entity.SetUID(uuid.New()); entity.SetVersion(1)
PrepareFirstVersion(e, uid) ==
    [e EXCEPT !.uid = uid, !.version = 1]

\* Mutant: the statement addresses no row.
CloseTarget_None(e) == NilUID

\* Model(latest).Update("valid_to", now) addresses the row whose primary key
\* is the UID held, when the statement runs, by the struct `latest` points to.
CloseTarget(e) == e.uid

\* Model(latest).Update("valid_to", now) on the table S.
CloseRow(S, e, t) == SetValidTo(S, CloseTarget(e), t)

\* Mutant: the last attempt may retry too.
MayRetry_EveryAttempt(attempt) == attempt < maxRetries

\* The retry test of Update's insert loop: attempt < maxRetries-1 (and the
\* error is a uniqueness violation).
MayRetry(attempt) == attempt < maxRetries - 1

\* Mutant: every error of the insert counts as a uniqueness violation.
isUniqueConstraintError_Any(err) == TRUE

\* isUniqueConstraintError: the error's text names a uniqueness violation
\* ("duplicate key value", "unique constraint", ...).  The model's insert
\* errors are "unique" (a constraint refused the row) and "infra" (anything
\* else).
isUniqueConstraintError(err) == err = "unique"

\* Mutant: every business ID passes the validation.
ValidBusinessID_Any(id) == TRUE

\* CreateNew's validation: entity.GetBusinessID() == "" is an error.
ValidBusinessID(id) == id # ""

\* Mutant: the writes of a failed call stay (no transaction around them).
RolledBack_KeepsWrites(p) == Apply(rows, loc[p].txIns, loc[p].txUpd)

\* The table after a call of p has failed: db.Transaction rolls back what the
\* transaction function wrote, and a statement that fails writes nothing.
RolledBack(p) == rows

\* The result of a call, as the caller receives it; `at` is the statement
\* whose error the call wrapped and returned.
Result(p, ok, err, e) ==
    [kind |-> loc[p].kind, key |-> loc[p].key, mut |-> loc[p].mut,
     ok |-> ok, err |-> err, at |-> pc[p], retries |-> loc[p].attempt,
     ent |-> e,
     pred |-> IF ok THEN loc[p].pred ELSE ZeroEntity]

\* The record of the returned calls of one key: the successful CreateNew and
\* Update calls, the versions the successful Updates returned, and whether a
\* SoftDelete has succeeded.
NoStat == [creates |-> 0, updates |-> 0, versions |-> {}, deleted |-> FALSE]

Record(st, r) ==
    IF ~r.ok \/ r.key \notin DOMAIN st THEN st
    ELSE [st EXCEPT ![r.key] =
            CASE r.kind = "CreateNew" -> [@ EXCEPT !.creates = @ + 1]
              [] r.kind = "Update" ->
                    [@ EXCEPT !.updates = @ + 1,
                              !.versions = @ \cup {r.ent.version}]
              [] OTHER -> [@ EXCEPT !.deleted = TRUE]]

\* The call of p returns: its locals are gone (a transaction that has not
\* committed is rolled back with them).
Return(p, ok, err, e) ==
    /\ pc' = [pc EXCEPT ![p] = "idle"]
    /\ loc' = [loc EXCEPT ![p] = IdleLoc]
    /\ last' = [last EXCEPT ![p] = Result(p, ok, err, e)]
    /\ stat' = Record(stat, Result(p, ok, err, e))

---------------------------------------------------------------------------
(* CreateNew                                                               *)

\* CreateNew is called; the business ID is validated first.
CallCreateNew(p, id, rate) ==
    /\ pc[p] = "idle"
    /\ calls < MaxCalls
    /\ calls' = calls + 1
    /\ IF ~ValidBusinessID(id)
       THEN /\ pc' = pc
            /\ loc' = loc
            /\ last' = [last EXCEPT ![p] =
                 [kind |-> "CreateNew", key |-> id, mut |-> 0, ok |-> FALSE,
                  err |-> "validation", at |-> "idle", retries |-> 0,
                  ent |-> ZeroEntity,
                  pred |-> ZeroEntity]]
            /\ stat' = stat
       ELSE /\ pc' = [pc EXCEPT ![p] = "c_check"]
            /\ loc' = [loc EXCEPT ![p] =
                 [IdleLoc EXCEPT !.kind = "CreateNew", !.key = id,
                                 !.ent = NewEntity(id, rate)]]
            /\ last' = [last EXCEPT ![p] = NoResult]
            /\ stat' = stat
    /\ UNCHANGED <<rows, clock>>
    /\ UNCHANGED deps
    /\ UNCHANGED query

\* db.Scopes(Latest).Where("id = ?", id).First(&exists), then SetUID, SetVersion.
CreateCheck(p) ==
    /\ pc[p] = "c_check"
    /\ IF Latest(ByBusinessID(rows, loc[p].key)) # {}
       THEN /\ Return(p, FALSE, "exists", ZeroEntity)
       ELSE /\ pc' = [pc EXCEPT ![p] = "c_insert"]
            /\ loc' = [loc EXCEPT ![p].ent = PrepareFirstVersion(@, NewUID)]
            /\ UNCHANGED <<last, stat>>
    /\ UNCHANGED <<rows, clock, calls>>
    /\ UNCHANGED deps
    /\ UNCHANGED query

\* db.Create(entity): one statement, committed on its own.  It waits while a
\* transaction that has not ended holds a row with the same key.
CreateInsert(p) ==
    /\ pc[p] = "c_insert"
    /\ LET h == BeforeCreate(loc[p].ent, rows, NewUID)
       IN  /\ ~UniqueViolation(PendingOthers(p), h.ent)
           /\ IF h.err \/ UniqueViolation(rows, h.ent)
              THEN /\ Return(p, FALSE, "insert", ZeroEntity)
                   /\ rows' = rows
              ELSE /\ rows' = rows \cup {h.ent}
                   /\ Return(p, TRUE, "", h.ent)
    /\ UNCHANGED <<clock, calls>>
    /\ UNCHANGED deps
    /\ UNCHANGED query

---------------------------------------------------------------------------
(* Update                                                                  *)

CallUpdate(p, id, m) ==
    /\ pc[p] = "idle"
    /\ calls < MaxCalls
    /\ calls' = calls + 1
    /\ pc' = [pc EXCEPT ![p] = "u_latest"]
    /\ loc' = [loc EXCEPT ![p] =
         [IdleLoc EXCEPT !.kind = "Update", !.key = id, !.mut = m]]
    /\ last' = [last EXCEPT ![p] = NoResult]
    /\ UNCHANGED <<rows, stat, clock>>
    /\ UNCHANGED deps
    /\ UNCHANGED query

\* 1. tx.Scopes(Latest).Where("id = ?", businessID).First(&latest)
UpdLatest(p) ==
    /\ pc[p] = "u_latest"
    /\ LET L == Latest(ByBusinessID(Visible(p), loc[p].key))
       IN  IF L = {}
           THEN Return(p, FALSE, "notfound", ZeroEntity)
           ELSE /\ \E r \in L :
                     loc' = [loc EXCEPT ![p].ent = r, ![p].pred = r]
                /\ pc' = [pc EXCEPT ![p] = "u_max"]
                /\ UNCHANGED <<last, stat>>
    /\ UNCHANGED <<rows, clock, calls>>
    /\ UNCHANGED deps
    /\ UNCHANGED query

\* 3. SELECT COALESCE(MAX(version), 0) + 1, then steps 4-5 on the struct.
UpdMax(p) ==
    /\ pc[p] = "u_max"
    /\ LET v == NextVersionOf(Visible(p), loc[p].key)
       IN  loc' = [loc EXCEPT ![p].nextVersion = v,
                              ![p].attempt = 0,
                              ![p].ent = PrepareNewVersion(
                                             MutateEnvelope(loc[p].env, @, clock),
                                             loc[p].mut, NewUID, v)]
    /\ pc' = [pc EXCEPT ![p] = "u_insert"]
    /\ UNCHANGED <<rows, last, stat, clock, calls>>
    /\ UNCHANGED deps
    /\ UNCHANGED query

\* 6. tx.Create(result) of the attempt loop.
UpdInsert(p) ==
    /\ pc[p] = "u_insert"
    /\ LET h == BeforeCreate(loc[p].ent, Visible(p), NewUID)
       IN  /\ ~UniqueViolation(PendingOthers(p), h.ent)
           /\ IF h.err
              THEN /\ Return(p, FALSE, "insert", ZeroEntity)
                   /\ rows' = RolledBack(p)
              ELSE IF UniqueViolation(Visible(p), h.ent)
              THEN IF MayRetry(loc[p].attempt) /\ isUniqueConstraintError("unique")
                   THEN /\ pc' = [pc EXCEPT ![p] = "u_recalc"]
                        /\ UNCHANGED <<rows, loc, last, stat>>
                   ELSE /\ Return(p, FALSE, "conflict", ZeroEntity)
                        /\ rows' = RolledBack(p)
              ELSE /\ loc' = [loc EXCEPT ![p].txIns = @ \cup {h.ent},
                                         ![p].ent = h.ent]
                   /\ pc' = [pc EXCEPT ![p] = "u_close"]
                   /\ UNCHANGED <<rows, last, stat>>
    /\ UNCHANGED <<clock, calls>>
    /\ UNCHANGED deps
    /\ UNCHANGED query

\* The retry branch: recompute the version, result.SetVersion, continue.  The
\* loop ends, and step 7 follows, when attempt reaches maxRetries.
UpdRecalc(p) ==
    /\ pc[p] = "u_recalc"
    /\ LET v == NextVersionOf(Visible(p), loc[p].key)
       IN  loc' = [loc EXCEPT ![p].nextVersion = v,
                              ![p].ent.version = v,
                              ![p].attempt = @ + 1]
    /\ pc' = [pc EXCEPT ![p] =
                IF loc[p].attempt + 1 < maxRetries THEN "u_insert" ELSE "u_close"]
    /\ UNCHANGED <<rows, last, stat, clock, calls>>
    /\ UNCHANGED deps
    /\ UNCHANGED query

\* Mutant: result is a copy, and `latest` still points to the row read.
latest_Predecessor(p) == loc[p].pred

\* The struct Update's variable `latest` points to.  T is a pointer type, so
\* step 4's result = latest copies the pointer: from then on `latest` and
\* `result` name one struct.
latest(p) == loc[p].ent

\* 7. now := time.Now(); tx.Model(&latest).Update("valid_to", now).  The
\* statement also assigns the column to the struct the model points to.
UpdClose(p) ==
    /\ pc[p] = "u_close"
    /\ LET V == CloseRow(Visible(p), latest(p), clock)
       IN  loc' = [loc EXCEPT
                ![p].txIns = {r \in V : r.uid \in UIDs(loc[p].txIns)},
                ![p].txUpd = {r \in V : r.uid \in UIDs(rows) /\ r \notin rows},
                ![p].ent.valid_to = clock]
    /\ clock' = clock + 1
    /\ pc' = [pc EXCEPT ![p] = "u_commit"]
    /\ UNCHANGED <<rows, last, stat, calls>>
    /\ UNCHANGED deps
    /\ UNCHANGED query

\* The transaction function returned nil: commit, return result.
UpdCommit(p) ==
    /\ pc[p] = "u_commit"
    /\ rows' = Visible(p)
    /\ Return(p, TRUE, "", loc[p].ent)
    /\ UNCHANGED <<clock, calls>>
    /\ UNCHANGED deps
    /\ UNCHANGED query

---------------------------------------------------------------------------
(* SoftDelete                                                              *)

CallSoftDelete(p, id) ==
    /\ pc[p] = "idle"
    /\ calls < MaxCalls
    /\ calls' = calls + 1
    /\ pc' = [pc EXCEPT ![p] = "d_latest"]
    /\ loc' = [loc EXCEPT ![p] =
         [IdleLoc EXCEPT !.kind = "SoftDelete", !.key = id]]
    /\ last' = [last EXCEPT ![p] = NoResult]
    /\ UNCHANGED <<rows, stat, clock>>
    /\ UNCHANGED deps
    /\ UNCHANGED query

\* latest, err := GetLatest[T](db, businessID)
SdLatest(p) ==
    /\ pc[p] = "d_latest"
    /\ LET L == Latest(ByBusinessID(rows, loc[p].key))
       IN  IF L = {}
           THEN Return(p, FALSE, "notfound", ZeroEntity)
           ELSE /\ \E r \in L :
                     loc' = [loc EXCEPT ![p].ent = r, ![p].pred = r]
                /\ pc' = [pc EXCEPT ![p] = "d_update"]
                /\ UNCHANGED <<last, stat>>
    /\ UNCHANGED <<rows, clock, calls>>
    /\ UNCHANGED deps
    /\ UNCHANGED query

\* now := time.Now(); db.Model(latest).Update("valid_to", now)
SdUpdate(p) ==
    /\ pc[p] = "d_update"
    /\ rows' = CloseRow(rows, loc[p].ent, clock)
    /\ clock' = clock + 1
    /\ Return(p, TRUE, "", ZeroEntity)
    /\ UNCHANGED <<calls>>
    /\ UNCHANGED deps
    /\ UNCHANGED query

---------------------------------------------------------------------------
(* Store failures                                                          *)

\* The statement p is about to issue fails for a reason other than a
\* constraint (connection lost, lock timeout, aborted transaction): every
\* call site returns the wrapped error, and db.Transaction rolls back.
StmtError(p) ==
    /\ pc[p] # "idle"
    /\ IF /\ pc[p] = "u_insert"
          /\ MayRetry(loc[p].attempt) /\ isUniqueConstraintError("infra")
       THEN /\ pc' = [pc EXCEPT ![p] = "u_recalc"]
            /\ UNCHANGED <<rows, loc, last, stat>>
       ELSE /\ Return(p, FALSE, "infra", ZeroEntity)
            /\ rows' = RolledBack(p)
    /\ UNCHANGED <<clock, calls>>
    /\ UNCHANGED deps
    /\ UNCHANGED query

---------------------------------------------------------------------------

Init ==
    /\ rows = {}
    /\ pc = [p \in Procs |-> "idle"]
    /\ loc = [p \in Procs |-> IdleLoc]
    /\ last = [p \in Procs |-> NoResult]
    /\ stat = [k \in Keys |-> NoStat]
    /\ clock = 1
    /\ calls = 0
    /\ deps = {}
    /\ query = EmptyQuery

Next ==
    \E p \in Procs :
        \/ \E id \in BusinessIDs, rate \in InitRates : CallCreateNew(p, id, rate)
        \/ CreateCheck(p)
        \/ CreateInsert(p)
        \/ \E id \in Keys : CallUpdate(p, id, MutatorOf(p))
        \/ UpdLatest(p)
        \/ UpdMax(p)
        \/ UpdInsert(p)
        \/ UpdRecalc(p)
        \/ UpdClose(p)
        \/ UpdCommit(p)
        \/ \E id \in Keys : CallSoftDelete(p, id)
        \/ SdLatest(p)
        \/ SdUpdate(p)
        \/ StmtError(p)

Spec == Init /\ [][Next]_vars

---------------------------------------------------------------------------
(* Read operations used by the properties                                  *)

RECURSIVE SortByVersion(_)
SortByVersion(S) ==
    IF S = {} THEN <<>>
    ELSE LET r == CHOOSE x \in S : \A y \in S : x.version <= y.version
         IN  <<r>> \o SortByVersion(S \ {r})

\* Mutant: the rows come in descending version order (OrderByVersion(true)).
RECURSIVE SortByVersionDesc(_)
SortByVersionDesc(S) ==
    IF S = {} THEN <<>>
    ELSE LET r == CHOOSE x \in S : \A y \in S : x.version >= y.version
         IN  <<r>> \o SortByVersionDesc(S \ {r})

GetAllVersions_Desc(S, id) == SortByVersionDesc(ByBusinessID(S, id))

\* GetAllVersions: Scopes(ByBusinessID(id), OrderByVersion(false)).Find
GetAllVersions(S, id) == SortByVersion(ByBusinessID(S, id))

\* GetLatest: Scopes(Latest).Where("id = ?", id).First; the rows First may
\* return, none meaning gorm.ErrRecordNotFound.
GetLatest(S, id) == Latest(ByBusinessID(S, id))

RowsOf(k) == ByBusinessID(rows, k)

VersionsOf(k) == {r.version : r \in RowsOf(k)}

\* A CreateNew of k has succeeded / a SoftDelete of k has succeeded.
Created(k) == stat[k].creates > 0

Deleted(k) == stat[k].deleted

AllReturned == \A p \in Procs : pc[p] = "idle"

\* p holds the result of a successful Update of k.
UpdatedOk(p, k) == last[p].kind = "Update" /\ last[p].key = k /\ last[p].ok

---------------------------------------------------------------------------
(* Properties                                                              *)

\* C1: every business key that has been created and never soft-deleted has
\* exactly one committed row with ValidTo = null, whatever the interleaving
\* of CreateNew, Update and SoftDelete calls.
C1_SingleLatest ==
    \A k \in Keys :
        (Created(k) /\ ~Deleted(k)) => Cardinality(Latest(RowsOf(k))) = 1

\* C1 witness: two Updates of one key raced (one was re-versioned by the
\* retry), both committed, and the key still has one latest row.
C1_Witness ==
    \E p \in Procs, k \in Keys :
        /\ UpdatedOk(p, k) /\ last[p].retries > 0
        /\ ~Deleted(k)
        /\ Cardinality(RowsOf(k)) = 3
        /\ Cardinality(Latest(RowsOf(k))) = 1

\* C2: no two committed rows share (BusinessKey, Version).
C2_NoDuplicateVersion ==
    \A r1 \in rows, r2 \in rows :
        (r1.id = r2.id /\ r1.version = r2.version) => r1 = r2

\* C2 witness: the two goroutines hold the results of concurrent Updates of
\* one key that read the same latest row; the second to commit was refused
\* the version of the first and committed another.
C2_Witness ==
    \E k \in Keys :
        /\ \A p \in Procs : UpdatedOk(p, k)
        /\ last["p1"].pred = last["p2"].pred
        /\ last["p1"].ent.version # last["p2"].ent.version
        /\ \E p \in Procs : last[p].retries > 0

\* C3: the versions of each key are exactly 1..count; after one CreateNew and
\* N successful Updates GetAllVersions returns N+1 rows, versions 1..N+1.
C3_Contiguous ==
    \A k \in Keys :
        LET all == GetAllVersions(rows, k)
        IN  /\ VersionsOf(k) = 1..Cardinality(RowsOf(k))
            /\ stat[k].creates = 1 =>
                  /\ Len(all) = stat[k].updates + 1
                  /\ \A i \in 1..Len(all) : all[i].version = i

\* C3 witness: one CreateNew and three successful Updates of a key.
C3_Witness ==
    \E k \in Keys :
        /\ stat[k].creates = 1 /\ stat[k].updates = 3
        /\ Len(GetAllVersions(rows, k)) = 4

\* C4: when the Update calls launched against one created key have all
\* returned, the key has 1 + (number of successful Updates) rows, and the
\* successful calls returned pairwise distinct version numbers.
C4_CountMatchesSuccesses ==
    \A k \in Keys :
        (AllReturned /\ stat[k].creates = 1) =>
            /\ Cardinality(RowsOf(k)) = 1 + stat[k].updates
            /\ Cardinality(stat[k].versions) = stat[k].updates

\* C4 witness: two Updates of one key that read the same latest row have both
\* returned success, one after a retry, and the key has three rows.
C4_Witness ==
    \E k \in Keys :
        /\ AllReturned
        /\ \A p \in Procs : UpdatedOk(p, k)
        /\ last["p1"].pred = last["p2"].pred
        /\ last["p1"].retries + last["p2"].retries > 0
        /\ stat[k].updates = 2
        /\ Cardinality(RowsOf(k)) = 3

\* C5: an Update fails only when the key has no latest row or the store
\* reports a failure of its own; Updates racing on one key all succeed.
C5_ConcurrentUpdatesAllSucceed ==
    \A p \in Procs :
        (last[p].kind = "Update" /\ ~last[p].ok) =>
            last[p].err \in {"notfound", "infra"}

\* C6: for each key that has a latest row, the row with ValidTo = null is the
\* row with the highest version and every lower version has ValidTo set.
C6_LatestIsHighestVersion ==
    \A k \in Keys :
        Latest(RowsOf(k)) # {} =>
            \A r \in RowsOf(k) :
                (r.valid_to = NULL) <=> (r.version = SetMax(VersionsOf(k)))

\* C7: a successful Update closes the row it read as latest and leaves the new
\* version open: the entity returned has ValidTo = null and the mutated
\* payload, and the stored predecessor has ValidTo set.
C7_UpdateClosesPredecessor ==
    \A p \in Procs, k \in Keys :
        UpdatedOk(p, k) =>
            /\ last[p].ent.valid_to = NULL
            /\ last[p].ent.rate = Mutate(last[p].mut, last[p].pred).rate
            /\ \A r \in rows : r.uid = last[p].pred.uid => r.valid_to # NULL

\* C8: once the ValidTo of a stored row is non-null, no step writes it again.
C8_ValidToWrittenOnce ==
    [][\A r \in rows : r.valid_to # NULL =>
          \E r2 \in rows' : r2.uid = r.uid /\ r2.valid_to = r.valid_to]_vars

\* C9: in Update the mutator is applied to a clone: while the new version is
\* being inserted and the predecessor closed, the entity `latest` still has
\* the surrogate key and the payload of the row that was read.
C9_MutatorOnClone ==
    \A p \in Procs :
        pc[p] \in {"u_insert", "u_recalc", "u_close"} =>
            /\ latest(p).uid = loc[p].pred.uid
            /\ latest(p).rate = loc[p].pred.rate

\* The stored part of C9: no step changes the surrogate key, business key,
\* version, ValidFrom or payload of a stored row.
StoredRowsKeepFields ==
    [][\A r \in rows :
          \E r2 \in rows' : [r2 EXCEPT !.valid_to = r.valid_to] = r]_vars

\* r's validity interval [ValidFrom, ValidTo) contains t; an open row is
\* valid for ever.
ValidAt(r, t) == r.valid_from <= t /\ (r.valid_to = NULL \/ t < r.valid_to)

\* C10: the validity intervals of two rows of one key never overlap.
C10_NoOverlap ==
    \A k \in Keys :
        ~Deleted(k) =>
            \A r1 \in RowsOf(k), r2 \in RowsOf(k) :
                r1 # r2 => ~(ValidAt(r1, r2.valid_from) \/ ValidAt(r2, r1.valid_from))

\* C11: every row's ValidFrom is the time at which the call that inserted it
\* ran, so it is not the zero time and a later version of a key has a later
\* ValidFrom.
C11_ValidFromIncreasing ==
    \A r1 \in rows :
        /\ r1.valid_from # ZeroTime
        /\ \A r2 \in rows :
              (r1.id = r2.id /\ r1.version < r2.version) =>
                  r1.valid_from < r2.valid_from

\* C12: restricted to one key that has not been soft-deleted, AsOf(t) for a
\* time t at which the engine ran returns one version and no other row.
C12_AsOfReturnsOneVersion ==
    \A k \in Keys, t \in 1..clock :
        (Created(k) /\ ~Deleted(k)) => Cardinality(AsOf(RowsOf(k), t)) = 1

\* The step is the return of a call of p (a CreateNew refused by the
\* validation returns in the step that calls it).
Returns(p) ==
    \/ pc[p] # "idle" /\ pc'[p] = "idle"
    \/ /\ pc[p] = "idle" /\ pc'[p] = "idle"
       /\ last'[p] # last[p] /\ last'[p].kind # "none"

\* C13: a call that returns an error leaves the committed rows as they were,
\* and the committed rows change only in the step in which a call returns
\* success, so a failed call has written nothing before its return either.
C13_FailureLeavesStore ==
    [][/\ \A p \in Procs : (Returns(p) /\ ~last'[p].ok) => rows' = rows
       /\ rows' # rows => \E p \in Procs : Returns(p) /\ last'[p].ok]_vars

\* C13 witness: an Update has failed after two retries inside its
\* transaction, and the rows of its key are those of the successful calls.
C13_Witness ==
    \E p \in Procs, k \in Keys :
        /\ last[p].kind = "Update" /\ last[p].key = k
        /\ ~last[p].ok /\ last[p].err = "conflict" /\ last[p].retries = 2
        /\ stat[k].creates = 1
        /\ Cardinality(RowsOf(k)) = 1 + stat[k].updates

\* C14: Update issues the statement that writes ValidTo only after its insert
\* has succeeded, and no committed state shows a created, never-deleted key
\* without a row whose ValidTo is null.
C14_CloseAfterInsert ==
    /\ \A p \in Procs :
          pc[p] \in {"u_close", "u_commit"} =>
              \E r \in loc[p].txIns : r.uid = loc[p].ent.uid
    /\ \A p \in Procs :
          (loc[p].txUpd # {} \/ \E r \in loc[p].txIns : r.valid_to # NULL) =>
              pc[p] = "u_commit"
    /\ \A k \in Keys :
          (Created(k) /\ ~Deleted(k)) => Latest(RowsOf(k)) # {}

\* C14 witness: an Update whose insert succeeded at the second attempt has
\* written ValidTo and is about to commit; its key has a latest row.
C14_Witness ==
    \E p \in Procs :
        /\ pc[p] = "u_commit" /\ loc[p].attempt > 0
        /\ \E r \in loc[p].txIns : r.uid = loc[p].ent.uid /\ r.valid_to # NULL
        /\ ~Deleted(loc[p].key)
        /\ Latest(RowsOf(loc[p].key)) # {}

\* The step is the successful return of p's CreateNew.
CreateSucceeds(p) == pc[p] = "c_insert" /\ pc'[p] = "idle" /\ last'[p].ok

\* C15: a successful CreateNew on a key without rows inserts exactly one row,
\* with Version = 1, ValidTo = null, a fresh non-nil surrogate key, the given
\* business key and the caller's payload; it is the entity returned, and
\* GetLatest of the key then returns that row.
C15_CreateInsertsFirstVersion ==
    [][\A p \in Procs :
          (CreateSucceeds(p) /\ ByBusinessID(rows, loc[p].key) = {}) =>
              LET e == last'[p].ent
              IN  /\ rows' = rows \cup {e} /\ e \notin rows
                  /\ e.version = 1 /\ e.valid_to = NULL
                  /\ e.uid # NilUID /\ e.uid \notin UIDs(rows)
                  /\ e.id = loc[p].key
                  /\ e.rate = loc[p].ent.rate /\ e.rate \in InitRates
                  /\ GetLatest(rows', loc[p].key) = {e}]_vars

\* C15 witness: a CreateNew has returned success while the other goroutine
\* is in the middle of a call, and the key's only row is the entity returned.
C15_Witness ==
    \E p \in Procs :
        /\ last[p].kind = "CreateNew" /\ last[p].ok
        /\ RowsOf(last[p].key) = {last[p].ent}
        /\ GetLatest(rows, last[p].key) = {last[p].ent}
        /\ \E q \in Procs : pc[q] # "idle"

\* The key of p's call has a row with ValidTo = null in the committed table.
HasOpenRow(p) == \E r \in rows : r.id = loc[p].key /\ r.valid_to = NULL

\* C16: a CreateNew whose existence check finds a latest row of its key
\* returns the already-exists error (or the store's own failure of the
\* query) and goes no further: no row is inserted.
C16_DuplicateCreateRejected ==
    [][\A p \in Procs :
          (pc[p] = "c_check" /\ HasOpenRow(p) /\ pc'[p] # pc[p]) =>
              /\ pc'[p] = "idle"
              /\ ~last'[p].ok /\ last'[p].err \in {"exists", "infra"}
              /\ rows' = rows]_vars

\* C16 witness: a CreateNew of a key that has a latest row has returned the
\* already-exists error.
C16_Witness ==
    \E p \in Procs :
        /\ last[p].kind = "CreateNew" /\ last[p].err = "exists"
        /\ Cardinality(GetLatest(rows, last[p].key)) = 1
        /\ stat[last[p].key].creates = 1

\* p holds the result of a CreateNew of k.
CreateResult(p, k) == last[p].kind = "CreateNew" /\ last[p].key = k

\* C17: of the CreateNew calls of one key at most one returns success, a
\* CreateNew that fails returns the already-exists error, the constraint
\* error of the insert or the store's own failure, and the table never holds
\* two rows with version 1 for one key.
C17_OneCreateWins ==
    \A k \in Keys :
        /\ stat[k].creates <= 1
        /\ Cardinality(ByVersion(RowsOf(k), 1)) <= 1
        /\ ~(\A p \in Procs : CreateResult(p, k) /\ last[p].ok)
        /\ \A p \in Procs :
              (CreateResult(p, k) /\ ~last[p].ok) =>
                  last[p].err \in {"exists", "insert", "infra"}

\* C17 witness: both goroutines called CreateNew for one new key and both
\* passed the existence check; one inserted, the other's insert was refused.
C17_Witness ==
    \E k \in Keys, p \in Procs, q \in Procs :
        /\ CreateResult(p, k) /\ last[p].ok
        /\ CreateResult(q, k) /\ ~last[q].ok /\ last[q].err = "insert"
        /\ RowsOf(k) = {last[p].ent}

\* C18: CreateNew with an empty business key returns the validation error
\* without issuing a statement, and no row with an empty key is ever stored.
C18_EmptyKeyRejected ==
    /\ \A r \in rows : r.id # ""
    /\ \A p \in Procs :
          /\ pc[p] # "idle" => loc[p].key # ""
          /\ (last[p].kind = "CreateNew" /\ last[p].key = "") =>
                (~last[p].ok /\ last[p].err = "validation")

\* C18 witness: a CreateNew with an empty business key has returned its
\* error while the table holds rows.
C18_Witness ==
    \E p \in Procs :
        /\ last[p].kind = "CreateNew" /\ last[p].key = ""
        /\ ~last[p].ok /\ last[p].err = "validation"
        /\ pc[p] = "idle"
        /\ rows # {}

\* C19: an Update whose first query finds no latest row of its key (the key
\* was never created, or was soft-deleted) returns the not-found error (or
\* the store's own failure of the query) from that statement: it computes no
\* version, attempts no insert, and the rows are unchanged.
C19_UpdateMissingRejected ==
    [][\A p \in Procs :
          (pc[p] = "u_latest" /\ ~HasOpenRow(p) /\ pc'[p] # pc[p]) =>
              /\ pc'[p] = "idle"
              /\ ~last'[p].ok /\ last'[p].err \in {"notfound", "infra"}
              /\ rows' = rows]_vars

\* C19 witness: an Update of a soft-deleted key has returned not-found, and
\* the rows of the key are the ones the earlier calls left.
C19_Witness ==
    \E p \in Procs, k \in Keys :
        /\ last[p].kind = "Update" /\ last[p].key = k
        /\ ~last[p].ok /\ last[p].err = "notfound"
        /\ Deleted(k) /\ RowsOf(k) # {} /\ GetLatest(rows, k) = {}
        /\ Cardinality(RowsOf(k)) = 1 + stat[k].updates

\* The step is the successful return of p's SoftDelete.
SoftDeleteSucceeds(p) == pc[p] = "d_update" /\ pc'[p] = "idle" /\ last'[p].ok

\* C20: a successful SoftDelete sets ValidTo, to the current time, on the row
\* it read as latest and changes nothing else: no row is added or removed,
\* every other row is as it was, and the key has no latest row afterwards.
C20_SoftDeleteFrame ==
    [][\A p \in Procs :
          SoftDeleteSucceeds(p) =>
              /\ loc[p].pred.valid_to = NULL /\ loc[p].pred.id = loc[p].key
              /\ \E r \in rows :
                    /\ r.uid = loc[p].pred.uid
                    /\ rows' = (rows \ {r}) \cup {[r EXCEPT !.valid_to = clock]}
              /\ Cardinality(rows') = Cardinality(rows)
              /\ \A r2 \in rows' : r2.uid = loc[p].pred.uid => r2.valid_to # NULL
              /\ GetLatest(rows', loc[p].key) = {}]_vars

\* C20 witness: a SoftDelete of a key with two versions has succeeded, and a
\* row of another key is still open.
C20_Witness ==
    \E p \in Procs, k \in Keys :
        /\ last[p].kind = "SoftDelete" /\ last[p].key = k /\ last[p].ok
        /\ Cardinality(RowsOf(k)) = 2
        /\ GetLatest(rows, k) = {}
        /\ \E k2 \in Keys \ {k} : GetLatest(rows, k2) # {}

\* C21: a SoftDelete whose query runs when its key has been soft-deleted, or
\* has no row at all, returns the not-found error (or the store's own failure
\* of the query) and changes no row: the ValidTo written earlier is kept.
C21_SoftDeleteNotIdempotent ==
    [][\A p \in Procs :
          (/\ pc[p] = "d_latest" /\ pc'[p] # pc[p]
           /\ (stat[loc[p].key].deleted \/ ByBusinessID(rows, loc[p].key) = {})) =>
              /\ pc'[p] = "idle"
              /\ ~last'[p].ok /\ last'[p].err \in {"notfound", "infra"}
              /\ rows' = rows]_vars

\* C21 witness: one goroutine holds the result of a successful SoftDelete of
\* a key, the other the not-found error of a SoftDelete of the same key, and
\* the key's rows are all closed.
C21_Witness ==
    \E p \in Procs, q \in Procs, k \in Keys :
        /\ last[p].kind = "SoftDelete" /\ last[p].key = k /\ last[p].ok
        /\ last[q].kind = "SoftDelete" /\ last[q].key = k
        /\ ~last[q].ok /\ last[q].err = "notfound"
        /\ RowsOf(k) # {} /\ \A r \in RowsOf(k) : r.valid_to # NULL

\* C22: soft-delete is terminal.  A soft-deleted key has no row with ValidTo =
\* null ever again, and a CreateNew, Update or SoftDelete that issues its
\* first statement on a soft-deleted key changes no row and fails: Update and
\* SoftDelete with not-found, CreateNew at its insert.
C22_SoftDeleteTerminal ==
    [][/\ \A k \in Keys : Deleted(k) => Latest(RowsOf(k)) = {}
       /\ \A p \in Procs :
             (/\ pc[p] \in {"c_check", "c_insert", "u_latest", "d_latest"}
              /\ pc'[p] # pc[p]
              /\ Deleted(loc[p].key)) =>
                 /\ rows' = rows
                 /\ IF pc'[p] = "idle"
                    THEN /\ ~last'[p].ok
                         /\ last'[p].err \in
                               IF pc[p] = "c_insert" THEN {"insert", "infra"}
                               ELSE {"notfound", "infra"}
                    ELSE pc[p] = "c_check" /\ pc'[p] = "c_insert"]_vars

\* C22 witness: after a SoftDelete of a key, a CreateNew of it has failed at
\* its insert and an Update of it has returned not-found; the key has its
\* rows, all closed.
C22_Witness ==
    \E p \in Procs, q \in Procs, k \in Keys :
        /\ Deleted(k)
        /\ last[p].kind = "CreateNew" /\ last[p].key = k /\ last[p].err = "insert"
        /\ last[q].kind = "Update" /\ last[q].key = k /\ last[q].err = "notfound"
        /\ Cardinality(RowsOf(k)) = 1 + stat[k].updates
        /\ Latest(RowsOf(k)) = {}

C24_VersionsFollowCommitOrder ==
    [][\A p \in Procs :
          (pc[p] = "u_commit" /\ pc'[p] = "idle" /\ last'[p].ok) =>
              /\ \A r \in rows :
                    r.id = loc[p].key => r.version < last'[p].ent.version
              /\ \E r \in rows' \ rows :
                    /\ r.uid = last'[p].ent.uid
                    /\ r.version = last'[p].ent.version
              /\ \A q \in Procs \ {p} :
                    UpdatedOk(q, loc[p].key) =>
                        last[q].ent.version < last'[p].ent.version]_vars

\* C24 witness: writer p had allocated its version before writer q committed
\* (p met q's row at its insert and retried), q committed first, and q holds
\* the lower version, p the higher.
C24_Witness ==
    \E p, q \in Procs, k \in Keys :
        /\ p # q
        /\ UpdatedOk(p, k) /\ UpdatedOk(q, k)
        /\ last[p].retries = 1 /\ last[q].retries = 0
        /\ last[p].pred = last[q].pred
        /\ last[q].ent.version = 2 /\ last[p].ent.version = 3
        /\ \E r \in rows : r.uid = last[p].ent.uid /\ r.version = 3
        /\ \E r \in rows : r.uid = last[q].ent.uid /\ r.version = 2

\* C25: operations on different business keys are independent.  A step
\* changes rows of one key only, and that key is the one the stepping call
\* was made on; an insert is refused (retry, conflict or failed create) only
\* when a committed row of the same key holds the version; and an insert
\* waits only for a pending row of its own key.
C25_KeysIndependent ==
    [][/\ \A k \in Keys :
             ByBusinessID(rows', k) # ByBusinessID(rows, k) =>
                 \E p \in Procs :
                     /\ pc[p] # "idle" /\ pc'[p] # pc[p]
                     /\ loc[p].key = k
       /\ \A p \in Procs :
             /\ (/\ pc[p] \in {"c_insert", "u_insert"}
                 /\ \/ pc'[p] = "u_recalc"
                    \/ pc'[p] = "idle" /\ last'[p].err \in {"conflict", "insert"}) =>
                     \E r \in rows : /\ r.id = loc[p].key
                                     /\ r.version = loc[p].ent.version
             /\ (/\ pc[p] \in {"c_insert", "u_insert"}
                 /\ \E r \in PendingOthers(p) :
                       \/ r.uid = loc[p].ent.uid
                       \/ r.version = loc[p].ent.version /\ r.id = loc[p].ent.id) =>
                     \E q \in Procs \ {p} :
                         pc[q] # "idle" /\ loc[q].key = loc[p].key]_vars

\* C25 witness: q's Update of one key has committed version 2 without a
\* retry, and p's Update of the other key has had its insert of version 2
\* accepted at the first attempt.
C25_Witness ==
    \E p, q \in Procs, k, j \in Keys :
        /\ p # q /\ k # j
        /\ UpdatedOk(q, j) /\ last[q].retries = 0 /\ last[q].ent.version = 2
        /\ pc[p] = "u_close" /\ loc[p].key = k /\ loc[p].attempt = 0
        /\ loc[p].ent.version = 2
        /\ \E r \in rows : r.id = j /\ r.version = 2
        /\ \A r \in rows : r.id = k => r.version = 1

\* C28: every row has a surrogate key of its own.  Committed rows and rows
\* pending in transactions carry pairwise different, non-nil UIDs; the row a
\* CreateNew or Update is about to insert carries a UID no committed row and
\* no other call in flight carries; and the entity a successful Update
\* returns has a UID different from the stored UID of its predecessor.
C28_FreshSurrogateKeys ==
    /\ \A r, s \in rows : r.uid = s.uid => r = s
    /\ \A r \in rows : r.uid # NilUID
    /\ \A p \in Procs :
          /\ pc[p] \in {"c_insert", "u_insert", "u_recalc"} =>
                /\ loc[p].ent.uid # NilUID
                /\ loc[p].ent.uid \notin {r.uid : r \in rows}
                /\ \A q \in Procs \ {p} :
                      /\ pc[q] # "idle" => loc[q].ent.uid # loc[p].ent.uid
                      /\ \A r \in loc[q].txIns : r.uid # loc[p].ent.uid
          /\ \A r \in loc[p].txIns : r.uid # NilUID /\ r.uid \notin {s.uid : s \in rows}
          /\ (last[p].kind = "Update" /\ last[p].ok) =>
                /\ last[p].ent.uid # last[p].pred.uid
                /\ \E r \in rows : r.uid = last[p].pred.uid /\ r.id = last[p].key
          /\ (last[p].kind \in {"Update", "CreateNew"} /\ last[p].ok) =>
                last[p].ent.uid # NilUID

\* C28 witness: a key has three committed rows (one CreateNew, two Updates)
\* under three different UIDs, and a goroutine holds an Update's result whose
\* UID is not its predecessor's.
C28_Witness ==
    \E p \in Procs, k \in Keys :
        /\ UpdatedOk(p, k)
        /\ Cardinality(RowsOf(k)) = 3
        /\ Cardinality({r.uid : r \in RowsOf(k)}) = 3
        /\ last[p].ent.uid # last[p].pred.uid
        /\ last[p].pred.uid \in {r.uid : r \in RowsOf(k)}
        /\ last[p].ent.uid \in {r.uid : r \in RowsOf(k)}

\* C30: GetAllVersions(key) returns every committed row of the key and no
\* row of another key, each once, in strictly ascending version order; for a
\* key without rows the list is empty.
C30_GetAllVersionsAscending ==
    \A k \in Keys :
        LET L == GetAllVersions(rows, k)
        IN  /\ {L[i] : i \in 1..Len(L)} = {r \in rows : r.id = k}
            /\ Len(L) = Cardinality({r \in rows : r.id = k})
            /\ \A i \in 1..Len(L) : L[i].id = k
            /\ \A i, j \in 1..Len(L) : i < j => L[i].version < L[j].version
            /\ ({r \in rows : r.id = k} = {}) => L = <<>>

\* C30 witness: one key has three versions, listed as 1, 2, 3, while the
\* other key holds a single row, which only its own list contains.
C30_Witness ==
    \E k, j \in Keys :
        /\ k # j
        /\ Len(GetAllVersions(rows, k)) = 3
        /\ GetAllVersions(rows, k)[1].version = 1
        /\ GetAllVersions(rows, k)[3].version = 3
        /\ Len(GetAllVersions(rows, j)) = 1
        /\ GetAllVersions(rows, j)[1].id = j

---------------------------------------------------------------------------
(* Direct use of the model: a caller keeps the entity CreateNew returned   *)
(* (last[p].ent), assigns its fields, closes it and saves it with db.Save, *)
(* bypassing Update.                                                       *)

\* Model.Close: m.ValidTo = &t
Close(e, t) == [e EXCEPT !.valid_to = t]

\* The fields the guard test assigns before saving.
ProtectedFields == {"version", "uid", "valid_from"}

\* The versions the guard test assigns: 99, and 1 to reset.
DirectVersions == {99, 1}

\* p holds an entity that a call has returned.
Holds(p) == pc[p] = "idle" /\ last[p].ent.uid # NilUID

\* uuid.New() called by the holder of an entity.
DirectNewUID ==
    LET used == UsedUIDs \cup {last[q].ent.uid : q \in Procs}
    IN  CHOOSE n \in 1..(Cardinality(used) + 1) : n \notin used

\* createdJob.Version = 99 / createdJob.UID = uuid.New() (or the original
\* UID again) / createdJob.ValidFrom = time.Now().Add(-time.Hour)
DirectAssign(p, f) ==
    /\ Holds(p)
    /\ \E e \in
          CASE f = "version" ->
                 {[last[p].ent EXCEPT !.version = v] : v \in DirectVersions}
            [] f = "uid" ->
                 {[last[p].ent EXCEPT !.uid = u] :
                     u \in {DirectNewUID} \cup
                           {r.uid : r \in ByBusinessID(rows, last[p].ent.id)}}
            [] OTHER ->
                 {[last[p].ent EXCEPT !.valid_from = t] : t \in {ZeroTime, clock}} :
          /\ e # last[p].ent
          /\ last' = [last EXCEPT ![p].ent = e]
    /\ calls < MaxCalls
    /\ calls' = calls + 1
    /\ UNCHANGED <<rows, pc, loc, stat, clock, deps>>
    /\ UNCHANGED query

\* db.Save(value) with a non-zero primary key: UPDATE of every column WHERE
\* uid = ?; when no row matched, INSERT.  The model declares BeforeCreate
\* only, so no hook runs on the update; the table's constraints apply.
Save(S, e) ==
    IF \E r \in S : r.uid = e.uid
    THEN IF \E r \in S : r.uid # e.uid /\ r.id = e.id /\ r.version = e.version
         THEN [err |-> "unique", rows |-> S]
         ELSE [err |-> "", rows |-> {r \in S : r.uid # e.uid} \cup {e}]
    ELSE IF UniqueViolation(S, e)
         THEN [err |-> "unique", rows |-> S]
         ELSE [err |-> "", rows |-> S \cup {e}]

\* err = db.Save(createdJob).Error
DirectSave(p) ==
    /\ Holds(p)
    /\ calls < MaxCalls
    /\ calls' = calls + 1
    /\ LET s == Save(rows, last[p].ent)
       IN  /\ rows' = s.rows
           /\ last' = [last EXCEPT ![p].kind = "Save",
                                   ![p].ok = (s.err = ""),
                                   ![p].err = s.err]
    /\ UNCHANGED <<pc, loc, stat, clock, deps>>
    /\ UNCHANGED query

\* entity.Close(time.Now()): the method returns nothing.
DirectClose(p) ==
    /\ Holds(p)
    /\ calls < MaxCalls
    /\ calls' = calls + 1
    /\ last' = [last EXCEPT ![p].kind = "Close",
                            ![p].ok = TRUE,
                            ![p].err = "",
                            ![p].ent = Close(@, clock)]
    /\ clock' = clock + 1
    /\ UNCHANGED <<rows, pc, loc, stat, deps>>
    /\ UNCHANGED query

DirectNext ==
    \E p \in Procs :
        \/ \E id \in BusinessIDs, rate \in InitRates : CallCreateNew(p, id, rate)
        \/ CreateCheck(p)
        \/ CreateInsert(p)
        \/ \E f \in ProtectedFields : DirectAssign(p, f)
        \/ DirectSave(p)
        \/ DirectClose(p)

DirectSpec == Init /\ [][DirectNext]_vars

\* C26: Close(t) on a record whose ValidTo is already set is rejected as an
\* error and leaves ValidTo as the first Close set it.
C26_SecondCloseRejected ==
    [][\A p \in Procs :
          (/\ last'[p].kind = "Close" /\ clock' # clock
           /\ \A q \in Procs \ {p} : last'[q] = last[q]
           /\ Holds(p) /\ last[p].ent.valid_to # NULL) =>
              /\ last'[p].ent.valid_to = last[p].ent.valid_to
              /\ ~last'[p].ok]_vars

\* C27: db.Save of an entity whose row is stored, with a Version, UID or
\* ValidFrom other than the stored one, returns an error and leaves the
\* table as it was.
C27_DirectSaveRejected ==
    [][\A p \in Procs :
          (/\ last'[p].kind = "Save" /\ calls' = calls + 1
           /\ Holds(p)
           /\ \E r \in rows : r.id = last[p].ent.id
           /\ ~\E r \in rows : /\ r.uid = last[p].ent.uid
                               /\ r.version = last[p].ent.version
                               /\ r.valid_from = last[p].ent.valid_from
           /\ \A q \in Procs \ {p} : last'[q] = last[q] /\ pc'[q] = pc[q]
           /\ last'[p].ent = last[p].ent /\ clock' = clock) =>
              /\ rows' = rows
              /\ ~last'[p].ok]_vars

---------------------------------------------------------------------------
(* Dependent tables: timelogs reference a job row, payment line items a    *)
(* job row and a timelog row, each by the row's uid.  One goroutine runs   *)
(* the job operations while the other creates the dependent rows.          *)

TimelogIDs == {"timelog-1"}

PaymentIDs == {"payment-1"}

\* Mutant: the tables declare no foreign keys.
ForeignKeyViolation_None(S, uid) == FALSE

\* job_uid UUID NOT NULL REFERENCES jobs(uid) (and timelog_uid likewise): the
\* insert is refused unless a row of the referenced table has the uid.
ForeignKeyViolation(S, uid) == uid \notin UIDs(S)

Timelogs == {d \in deps : d.kind = "timelog"}

Payments == {d \in deps : d.kind = "payment"}

\* The entities whose GetUID() a creator of dependent rows can pass: one
\* returned by a call (the zero entity after a failed one), one read from
\* the table, or a struct carrying a uid no row has.
JobRefs ==
    {last[q].ent : q \in Procs} \cup rows \cup {[ZeroEntity EXCEPT !.uid = NewUID]}

TimelogRefs == UIDs(Timelogs) \cup {NilUID}

\* A dependent row: the SCD envelope, the references, and (pin) the business
\* ID, version and payload of the job entity whose uid was passed.
DepRow(kind, id, uid, e, t) ==
    [kind |-> kind, uid |-> uid, id |-> id, version |-> 1, valid_to |-> NULL,
     job_uid |-> e.uid, timelog_uid |-> t,
     pin |-> [id |-> e.id, version |-> e.version, rate |-> e.rate]]

DepResult(kind, id, err) ==
    [NoResult EXCEPT !.kind = kind, !.key = id, !.ok = (err = ""), !.err = err]

\* CreateNew on a dependent table S (the rows of one kind): the latest-row
\* check, SetUID, SetVersion(1), and the insert under the table's
\* constraints, d being the row to insert.
CreateDependent(p, S, d, fkFails) ==
    /\ pc[p] = "idle"
    /\ LET err == IF Latest(ByBusinessID(S, d.id)) # {} THEN "exists"
                  ELSE IF UniqueViolation(S, d) THEN "insert"
                  ELSE IF fkFails THEN "fk"
                  ELSE ""
       IN  /\ deps' = IF err = "" THEN deps \cup {d} ELSE deps
           /\ last' = [last EXCEPT ![p] = DepResult(d.kind, d.id, err)]
    /\ calls < MaxCalls
    /\ calls' = calls + 1
    /\ UNCHANGED <<rows, pc, loc, stat, clock>>
    /\ UNCHANGED query

\* CreateNew(db, &Timelog{ID: id, JobUID: job.GetUID()})
CreateTimelog(p, id, e) ==
    CreateDependent(p, Timelogs, DepRow("timelog", id, NewUID, e, NilUID),
                    ForeignKeyViolation(rows, e.uid))

\* CreateNew(db, &PaymentLineItem{ID: id, JobUID: job.GetUID(),
\*                                TimelogUID: timelog.GetUID()})
CreatePayment(p, id, e, t) ==
    CreateDependent(p, Payments, DepRow("payment", id, NewUID, e, t),
                    \/ ForeignKeyViolation(rows, e.uid)
                    \/ ForeignKeyViolation(Timelogs, t))

RefNext ==
    \/ \E id \in BusinessIDs, rate \in InitRates : CallCreateNew("p1", id, rate)
    \/ CreateCheck("p1")
    \/ CreateInsert("p1")
    \/ \E id \in Keys : CallUpdate("p1", id, MutatorOf("p1"))
    \/ UpdLatest("p1")
    \/ UpdMax("p1")
    \/ UpdInsert("p1")
    \/ UpdClose("p1")
    \/ UpdCommit("p1")
    \/ \E id \in Keys : CallSoftDelete("p1", id)
    \/ SdLatest("p1")
    \/ SdUpdate("p1")
    \/ StmtError("p1")
    \/ \E id \in TimelogIDs, e \in JobRefs : CreateTimelog("p2", id, e)
    \/ \E id \in PaymentIDs, e \in JobRefs, t \in TimelogRefs :
          CreatePayment("p2", id, e, t)

RefSpec == Init /\ [][RefNext]_vars

\* C29: every dependent row's reference is the uid of a committed row of the
\* referenced table (timelog -> job, payment line item -> job and timelog),
\* and the job row a reference names is the version whose entity supplied
\* the uid: same business ID, version and payload, whatever updates and soft
\* deletes of the job have happened since.
C29_ReferencesPinned ==
    /\ \A d \in deps :
          /\ \E r \in rows : /\ r.uid = d.job_uid
                             /\ r.id = d.pin.id
                             /\ r.version = d.pin.version
                             /\ r.rate = d.pin.rate
          /\ d.kind = "payment" =>
                \E t \in deps : t.kind = "timelog" /\ t.uid = d.timelog_uid
    /\ \A p \in Procs :
          (last[p].kind \in {"timelog", "payment"} /\ last[p].ok) =>
              \E d \in deps : d.kind = last[p].kind /\ d.id = last[p].key

\* C29 witness: a timelog and a payment line item reference version 1 of a
\* job that has since been updated to version 2 and soft-deleted; the
\* payment line item references the timelog.
C29_Witness ==
    \E k \in Keys, t \in deps, y \in deps :
        /\ t.kind = "timelog" /\ y.kind = "payment"
        /\ y.timelog_uid = t.uid /\ y.job_uid = t.job_uid
        /\ t.pin.id = k /\ t.pin.version = 1
        /\ \E r \in rows : r.uid = t.job_uid /\ r.id = k /\ r.version = 1
        /\ VersionsOf(k) = {1, 2}
        /\ Deleted(k)

---------------------------------------------------------------------------

\* C32: Latest and Historical partition AllVersions: every committed row is
\* selected by exactly one of the two scopes, and for a created, never
\* soft-deleted key with n rows Latest selects one row and Historical n-1.
C32_LatestHistoricalPartition ==
    /\ Latest(rows) \cap Historical(rows) = {}
    /\ Latest(rows) \cup Historical(rows) = AllVersions(rows)
    /\ \A k \in Keys :
          (Created(k) /\ ~Deleted(k)) =>
              /\ Cardinality(Latest(RowsOf(k))) = 1
              /\ Cardinality(Historical(RowsOf(k))) = Cardinality(RowsOf(k)) - 1

\* C32 witness: a key that was never soft-deleted has three rows, one
\* selected by Latest and two by Historical.
C32_Witness ==
    \E k \in Keys :
        /\ Created(k) /\ ~Deleted(k)
        /\ Cardinality(RowsOf(k)) = 3
        /\ Cardinality(Latest(RowsOf(k))) = 1
        /\ Cardinality(Historical(RowsOf(k))) = 2

\* Exists: SELECT count(*) WHERE id = ?; count > 0
Exists(S, id) == Cardinality(ByBusinessID(S, id)) > 0

\* Mutant: the count is taken without the Latest scope.
HasLatestVersion_Unscoped(S, id) == Cardinality(ByBusinessID(S, id)) > 0

\* HasLatestVersion: SELECT count(*) WHERE valid_to IS NULL AND id = ?; count > 0
HasLatestVersion(S, id) == Cardinality(Latest(ByBusinessID(S, id))) > 0

\* C33: Exists(key) is true exactly when the key has a committed row of any
\* version, HasLatestVersion(key) exactly when it has a committed row with
\* ValidTo = null; HasLatestVersion implies Exists; and the step in which a
\* SoftDelete succeeds leaves Exists true and HasLatestVersion false.
C33_ExistsAndHasLatest ==
    [][\A k \in Keys :
          /\ Exists(rows, k) <=> (\E r \in rows : r.id = k)
          /\ HasLatestVersion(rows, k) <=>
                (\E r \in rows : r.id = k /\ r.valid_to = NULL)
          /\ HasLatestVersion(rows, k) => Exists(rows, k)
          /\ (\E p \in Procs : SoftDeleteSucceeds(p) /\ loc[p].key = k) =>
                /\ Exists(rows', k)
                /\ ~HasLatestVersion(rows', k)
          /\ Deleted(k) => (Exists(rows, k) /\ ~HasLatestVersion(rows, k))]_vars

\* C33 witness: one key has been soft-deleted (Exists true, HasLatestVersion
\* false), the other has an open row (both true).
C33_Witness ==
    \E k, j \in Keys :
        /\ Deleted(k) /\ Exists(rows, k) /\ ~HasLatestVersion(rows, k)
        /\ ~Deleted(j) /\ Exists(rows, j) /\ HasLatestVersion(rows, j)

\* C34: after an insert attempt of an Update was refused by the uniqueness
\* constraint, the next attempt inserts the same struct (same UID, same
\* business ID, same mutated payload) under a version recomputed as the
\* highest committed version of the key at that moment plus one.
C34_RetryRecomputesVersion ==
    [][\A p \in Procs :
          /\ (pc[p] = "u_insert" /\ pc'[p] = "u_recalc") =>
                /\ loc'[p] = loc[p]
                /\ \E r \in rows : /\ r.id = loc[p].ent.id
                                   /\ r.version = loc[p].ent.version
          /\ (pc[p] = "u_recalc" /\ pc'[p] # pc[p] /\ pc'[p] # "idle") =>
                /\ pc'[p] = "u_insert"
                /\ loc'[p].attempt = loc[p].attempt + 1
                /\ \E r \in rows :
                      /\ r.id = loc[p].key
                      /\ \A s \in rows : s.id = loc[p].key => s.version <= r.version
                      /\ loc'[p].ent.version = r.version + 1
                /\ loc'[p].ent.uid = loc[p].ent.uid
                /\ loc'[p].ent.id = loc[p].ent.id
                /\ loc'[p].ent.rate = loc[p].ent.rate
                /\ loc'[p].ent.rate = loc[p].pred.rate + loc[p].mut]_vars

\* C34 witness: an Update is at its second attempt with version 3, version 2
\* of its key having been committed by the other writer after it had
\* allocated 2 itself.
C34_Witness ==
    \E p \in Procs :
        /\ pc[p] = "u_insert" /\ loc[p].attempt = 1
        /\ loc[p].ent.version = 3
        /\ loc[p].pred.version = 1
        /\ {r.version : r \in ByBusinessID(rows, loc[p].key)} = {1, 2}

\* Only goroutine p1 has made calls so far: the history is sequential.
Sequential == pc["p2"] = "idle" /\ last["p2"] = NoResult

\* C35: in the history of a CreateNew followed by sequential Updates every
\* row below the highest version is closed, a closed row has
\* ValidFrom <= ValidTo <= now, and the closing times increase with the
\* version.
C35_ClosingTimesIncrease ==
    Sequential =>
        \A k \in Keys : \A r, s \in RowsOf(k) :
            /\ r.valid_to # NULL =>
                  r.valid_from <= r.valid_to /\ r.valid_to <= clock
            /\ r.version < s.version =>
                  /\ r.valid_to # NULL
                  /\ s.valid_to # NULL => r.valid_to < s.valid_to

\* C36: an insert of Update that fails for a reason other than a uniqueness
\* violation is not retried: the call returns the error at that attempt, the
\* transaction rolls back, and the retry branch is entered only when a row
\* holding the UID or the (business ID, version) pair exists.
C36_OtherInsertErrorsNotRetried ==
    [][\A p \in Procs :
          /\ (pc[p] = "u_insert" /\ pc'[p] = "u_recalc") =>
                \E r \in Visible(p) :
                    \/ r.uid = loc[p].ent.uid
                    \/ r.id = loc[p].ent.id /\ r.version = loc[p].ent.version
          /\ (/\ pc[p] = "u_insert" /\ pc'[p] # pc[p]
              /\ ~\E r \in Visible(p) :
                    \/ r.uid = loc[p].ent.uid
                    \/ r.id = loc[p].ent.id /\ r.version = loc[p].ent.version) =>
                \/ pc'[p] = "u_close"
                \/ /\ pc'[p] = "idle"
                   /\ ~last'[p].ok /\ last'[p].err \in {"insert", "infra"}
                   /\ last'[p].retries = loc[p].attempt
                   /\ last'[p].ent = ZeroEntity
                   /\ rows' = rows]_vars

\* C36 witness: an Update has returned a store failure from its first insert
\* attempt, no row of its key beyond the first version is committed, and
\* the other goroutine is not in a call on that key.
C36_Witness ==
    \E p \in Procs, k \in Keys :
        /\ last[p].kind = "Update" /\ last[p].key = k
        /\ ~last[p].ok /\ last[p].err = "infra" /\ last[p].at = "u_insert"
        /\ last[p].retries = 0
        /\ stat[k].updates = 0
        /\ Cardinality(RowsOf(k)) = 1
        /\ \A q \in Procs \ {p} : pc[q] = "idle"

\* C37: a SoftDelete that returns success, also when an Update of the same
\* key committed between its read of the latest row and its write, leaves
\* the key without a row with ValidTo = null and leaves every ValidTo that
\* an Update had set as it was.  (Before the first successful SoftDelete of a
\* key, every closed row of the key was closed by an Update.)
C37_SoftDeleteAfterUpdate ==
    [][\A p \in Procs :
          (SoftDeleteSucceeds(p) /\ ~stat[loc[p].key].deleted) =>
              /\ \A r \in rows' : r.id = loc[p].key => r.valid_to # NULL
              /\ \A r \in rows :
                    (r.id = loc[p].key /\ r.valid_to # NULL) => r \in rows'
              /\ \A r \in rows :
                    (r.id = loc[p].key /\ r.version > 1) => r \in rows']_vars

\* C37 witness: the SoftDelete has read version 1 as latest and not yet
\* written, and the other goroutine's Update of the same key has committed
\* version 2 meanwhile.
C37_Witness ==
    \E p, q \in Procs, k \in Keys :
        /\ p # q
        /\ pc[p] = "d_update" /\ loc[p].key = k /\ loc[p].pred.version = 1
        /\ UpdatedOk(q, k) /\ last[q].ent.version = 2
        /\ calls = 3
        /\ \E r \in rows : r.id = k /\ r.version = 2

\* C38: no lost update.  Every committed row of version n > 1 carries the
\* payload of the committed row of version n-1 changed by the mutator of one
\* of the callers.
C38_NoLostUpdate ==
    \A k \in Keys : \A r \in RowsOf(k) :
        r.version > 1 =>
            \E s \in RowsOf(k), p \in Procs :
                /\ s.version = r.version - 1
                /\ r.rate = Mutate(MutatorOf(p), s).rate

\* C40: for every business key, soft-deleted or not, and every time t,
\* AsOf(t) selects at most one row of the key; for a key that was never
\* soft-deleted and a time t at or after the ValidFrom of its first version
\* it selects exactly one.
C40_AsOfAtMostOne ==
    \A k \in Keys, t \in ZeroTime..clock :
        /\ Cardinality(AsOf(RowsOf(k), t)) <= 1
        /\ (/\ Created(k) /\ ~Deleted(k)
            /\ \E r \in RowsOf(k) : r.version = 1 /\ r.valid_from <= t) =>
               Cardinality(AsOf(RowsOf(k), t)) = 1

---------------------------------------------------------------------------
(* Mutators that assign SCD fields: one goroutine calls CreateNew and       *)
(* Update, its mutators changing the payload and at most one field of the  *)
(* envelope of the struct they receive.                                    *)

\* Update(db, id, mutator), the mutator also performing the assignment f.
CallUpdateEnv(p, id, m, f) ==
    /\ pc[p] = "idle"
    /\ calls < MaxCalls
    /\ calls' = calls + 1
    /\ pc' = [pc EXCEPT ![p] = "u_latest"]
    /\ loc' = [loc EXCEPT ![p] =
         [IdleLoc EXCEPT !.kind = "Update", !.key = id, !.mut = m, !.env = f]]
    /\ last' = [last EXCEPT ![p] = NoResult]
    /\ UNCHANGED <<rows, stat, clock>>
    /\ UNCHANGED deps
    /\ UNCHANGED query

EnvNext ==
    \/ \E id \in BusinessIDs, rate \in InitRates : CallCreateNew("p1", id, rate)
    \/ CreateCheck("p1")
    \/ CreateInsert("p1")
    \/ \E id \in Keys, f \in EnvelopeMutations :
          CallUpdateEnv("p1", id, MutatorOf("p1"), f)
    \/ UpdLatest("p1")
    \/ UpdMax("p1")
    \/ UpdInsert("p1")
    \/ UpdRecalc("p1")
    \/ UpdClose("p1")
    \/ UpdCommit("p1")
    \/ StmtError("p1")

EnvSpec == Init /\ [][EnvNext]_vars

\* C39: whatever the mutator assigns to the envelope of the struct it
\* receives, the row an Update inserts carries the business key the call was
\* made on, the allocated version, a UID no committed row has, and
\* ValidTo = null.
C39_EnvelopeProtected ==
    [][\A p \in Procs :
          (pc[p] = "u_insert" /\ pc'[p] = "u_close") =>
              \A r \in loc'[p].txIns \ loc[p].txIns :
                  /\ r.id = loc[p].key
                  /\ r.version = loc[p].nextVersion
                  /\ r.uid # NilUID /\ r.uid \notin {s.uid : s \in rows}
                  /\ r.valid_to = NULL]_vars

---------------------------------------------------------------------------
(* Scope composition: a caller builds a query by applying scopes one after *)
(* the other to db and runs Find on a table.                               *)

\* scd.ValidDuring(start, end):
\* valid_from <= end AND (valid_to IS NULL OR valid_to >= start)
ValidDuring(S, start, end) ==
    {r \in S : r.valid_from <= end /\ (r.valid_to = NULL \/ r.valid_to >= start)}

\* scd.CreatedAfter(t): valid_from > t
CreatedAfter(S, t) == {r \in S : r.valid_from > t}

\* scd.CreatedBefore(t): valid_from < t
CreatedBefore(S, t) == {r \in S : r.valid_from < t}

MaxScopes == 2

\* The filter scopes a caller applies, with their arguments.
FilterScopes ==
    {[scope |-> s, id |-> "", n |-> 0, m |-> 0] : s \in {"Latest", "Historical"}}
    \cup {[scope |-> "ByBusinessID", id |-> k, n |-> 0, m |-> 0] : k \in Keys}
    \cup {[scope |-> "ByVersion", id |-> "", n |-> v, m |-> 0] : v \in {1, 2}}
    \cup {[scope |-> "AsOf", id |-> "", n |-> t, m |-> 0] : t \in {0, 1}}
    \cup {[scope |-> "ValidDuring", id |-> "", n |-> 1, m |-> 2]}
    \cup {[scope |-> "CreatedAfter", id |-> "", n |-> 0, m |-> 0]}
    \cup {[scope |-> "CreatedBefore", id |-> "", n |-> 1, m |-> 0]}

\* The ordering scopes: OrderByVersion(desc), OrderByTime(desc).
OrderScopes ==
    {[col |-> c, desc |-> d] : c \in {"version", "valid_from"}, d \in BOOLEAN}

\* The rows a filter scope selects when applied alone to the table S.
Select(S, c) ==
    CASE c.scope = "Latest"        -> Latest(S)
      [] c.scope = "Historical"    -> Historical(S)
      [] c.scope = "ByBusinessID"  -> ByBusinessID(S, c.id)
      [] c.scope = "ByVersion"     -> ByVersion(S, c.n)
      [] c.scope = "AsOf"          -> AsOf(S, c.n)
      [] c.scope = "ValidDuring"   -> ValidDuring(S, c.n, c.m)
      [] c.scope = "CreatedAfter"  -> CreatedAfter(S, c.n)
      [] OTHER                     -> CreatedBefore(S, c.n)

\* Mutant: a condition replaces the conditions already there.
Where_Replace(q, c) == [q EXCEPT !.where = <<c>>]

\* db.Where(cond): the statement gets one more condition.
Where(q, c) == [q EXCEPT !.where = Append(@, c)]

\* db.Order(col): the statement gets one more ordering column.
Order(q, o) == [q EXCEPT !.order = Append(@, o)]

\* The condition c of a WHERE clause is true of the row r.
Matches(c, r) == r \in Select({r}, c)

\* ORDER BY ord places r before s.
Key(r, o) ==
    (IF o.col = "version" THEN r.version ELSE r.valid_from)
        * (IF o.desc THEN -1 ELSE 1)

Before(r, s, ord) ==
    \E i \in DOMAIN ord :
        /\ Key(r, ord[i]) < Key(s, ord[i])
        /\ \A j \in 1..(i - 1) : Key(r, ord[j]) = Key(s, ord[j])

RECURSIVE SortRows(_, _)
SortRows(S, ord) ==
    IF S = {} THEN <<>>
    ELSE LET r == CHOOSE x \in S : \A y \in S : ~Before(y, x, ord)
         IN  <<r>> \o SortRows(S \ {r}, ord)

\* Find: SELECT * FROM table WHERE c1 AND c2 ... ORDER BY o1, o2 ...
Find(S, q) ==
    SortRows({r \in S : \A i \in DOMAIN q.where : Matches(q.where[i], r)}, q.order)

\* The tables the queries run on: up to two rows over two keys and two
\* versions, with every combination of ValidFrom and ValidTo, under the
\* table's PRIMARY KEY(uid) and UNIQUE(id, version).
ScopeRows ==
    {[uid |-> IF k = "a" THEN v ELSE 2 + v, id |-> k, version |-> v,
      valid_from |-> f, valid_to |-> t, rate |-> 50] :
        k \in Keys, v \in {1, 2}, f \in {0, 1}, t \in {NULL, 1, 2}}

ScopeTables ==
    {T \in SUBSET ScopeRows :
        /\ Cardinality(T) <= 2
        /\ \A r, s \in T : r.uid = s.uid => r = s}

ScopeInit ==
    /\ rows \in ScopeTables
    /\ pc = [p \in Procs |-> "idle"]
    /\ loc = [p \in Procs |-> IdleLoc]
    /\ last = [p \in Procs |-> NoResult]
    /\ stat = [k \in Keys |-> NoStat]
    /\ clock = 1
    /\ calls = 0
    /\ deps = {}
    /\ query = EmptyQuery

\* db.Scopes(filter): the scope calls db.Where with its condition.
ApplyFilter(c) ==
    /\ Len(query.where) + Len(query.order) < MaxScopes
    /\ query' = Where(query, c)
    /\ UNCHANGED <<rows, pc, loc, last, stat, clock, calls, deps>>

\* db.Scopes(OrderByVersion(desc)) / db.Scopes(OrderByTime(desc))
ApplyOrder(o) ==
    /\ Len(query.where) + Len(query.order) < MaxScopes
    /\ query' = Order(query, o)
    /\ UNCHANGED <<rows, pc, loc, last, stat, clock, calls, deps>>

ScopeNext ==
    \/ \E c \in FilterScopes : ApplyFilter(c)
    \/ \E o \in OrderScopes : ApplyOrder(o)

ScopeSpec == ScopeInit /\ [][ScopeNext]_vars

\* The rows of a result list.
Elements(L) == {L[i] : i \in DOMAIN L}

\* C31: filter scopes compose by AND and commute, and an ordering scope
\* changes the sequence only.  Applying a filter scope narrows the result to
\* the rows that scope selects when applied alone; applying an ordering
\* scope leaves the set of rows as it was; the rows a query returns are the
\* rows every one of its filter scopes selects alone, the same in whatever
\* order the filters were applied, each row once, in the order asked for.
C31_ScopesCompose ==
    /\ [](LET found == Elements(Find(rows, query))
          IN  /\ found = {r \in rows :
                            \A i \in DOMAIN query.where :
                                r \in Select(rows, query.where[i])}
              /\ \A f \in Permutations(DOMAIN query.where) :
                    Elements(Find(rows,
                        [query EXCEPT !.where =
                            [i \in DOMAIN query.where |-> query.where[f[i]]]]))
                      = found
              /\ Len(Find(rows, query)) = Cardinality(found)
              /\ \A i, j \in DOMAIN Find(rows, query) :
                    i < j => ~Before(Find(rows, query)[j], Find(rows, query)[i],
                                     query.order))
    /\ [][LET found == Elements(Find(rows, query))
              after == Find(rows, query')
          IN  /\ (query'.where # query.where) =>
                    (/\ Len(query'.where) = Len(query.where) + 1
                     /\ Elements(after) =
                           found \cap Select(rows, query'.where[Len(query'.where)]))
              /\ (query'.order # query.order) =>
                    (/\ Elements(after) = found
                     /\ Len(after) = Len(Find(rows, query)))]_vars

\* C31 witness: two different filter scopes have been applied to a table of
\* two rows, each alone selects one row or both, and together they select
\* one row, which the other order of application selects as well.
C31_Witness ==
    /\ Len(query.where) = 2
    /\ query.where[1].scope # query.where[2].scope
    /\ Cardinality(rows) = 2
    /\ Select(rows, query.where[1]) # Select(rows, query.where[2])
    /\ Cardinality(Elements(Find(rows, query))) = 1
    /\ Elements(Find(rows, [query EXCEPT !.where = <<query.where[2], query.where[1]>>]))
          = Elements(Find(rows, query))

====
